---- MODULE Spec2Model ----
(***************************************************************************)
(* State-machine model of the delphi NOT/NOR crossbar compiler: the netlist *)
(* parser of src/src/parser/mod.rs, the three scheduling passes (ASAP,     *)
(* ALAP, list) of src/src/scheduler/mod.rs, the naive and compact mappers  *)
(* of src/src/mapper/mod.rs and the listings of src/src/generator/mod.rs,  *)
(* in the order main.rs runs them.  A run starts from a netlist or from a  *)
(* gate table.  Every loop whose termination depends on the input (the     *)
(* line loop, the ASAP while loop, the ALAP labelling loop, the mappers'   *)
(* gate loops) advances one iteration per step; loops with a fixed trip    *)
(* count are part of the step that contains them.  The generator writes    *)
(* files only: its listings are operators over the state it reads.         *)
(***************************************************************************)
EXTENDS Integers, Sequences, FiniteSets, TLC

\* ---------------------------------------------------------------- constants
MAX_GATES == 8000
OUT_BIAS == 10000
\* the crossbar of CrossbarMapping::new is MAX_ROW rows of MAX_COL cells
MAX_ROW == 500
MAX_COL == 1000
\* for _ in 0..10 : the extra ALAP passes
ALAP_EXTRA_PASSES == 10
\* for max_gates in 2..20 : first candidate and exclusive end
LIST_FIRST_CANDIDATE == 2
LIST_END_CANDIDATE == 20

\* ------------------------------------------------------------------- bounds
\* gate tables of the scheduling universe have at most MaxGates gates
MaxGates == 3
\* gate tables of the mapping universe have at most MaxMapGates gates
MaxMapGates == 2
\* gate tables of the inverter universe have at most MaxInverters gates
MaxInverters == 4
\* ladder circuits have chains of at most MaxLadder gates
MaxLadder == 12
\* netlist lines have at most MaxRhs variables right of the equals sign
MaxRhs == 5
\* netlists of several lines have at most MaxLines lines
MaxLines == 2
\* gate tables of the termination universe have at most MaxFairGates gates
MaxFairGates == 2

VARIABLES
    netlist,      \* the lines of the netlist file
    ln,           \* parse_netlist: number of lines read
    temp_var,     \* parse_netlist: local temp_var
    num_outputs,  \* circuit.num_outputs
    gates,        \* circuit.gates : sequence of TableGate records
    num_gates,    \* circuit.num_gates
    num_inputs,   \* circuit.num_inputs
    max_asap,     \* circuit.max_asap
    max_alap,     \* circuit.max_alap
    max_list,     \* circuit.max_list
    pc,           \* position in the pipeline of main.rs
    count,        \* compute_asap_schedule: local count
    max_level,    \* compute_list_schedule: local max_level
    cand,         \* compute_list_schedule: loop variable max_gates
    feasible,     \* compute_list_schedule: result of the last attempt
    crossbar,     \* mapping.crossbar of the mapper that runs or returned last:
                  \* (row, col) -> MemristiveGate, written cells only
    av_row,       \* create_compact_mapping: local av_row
    max_idx,      \* mapping.max_idx
    max_jdx,      \* mapping.max_jdx
    mi,           \* the mappers' "Map gates" loop index (0-based)
    last          \* the placement made by the latest mapper step

vars == <<netlist, ln, temp_var, num_outputs, gates, num_gates, num_inputs,
          max_asap, max_alap, max_list, pc, count, max_level, cand, feasible,
          crossbar, av_row, max_idx, max_jdx, mi, last>>

\* ------------------------------------------------------------ small helpers
Max2(a, b) == IF a >= b THEN a ELSE b

RECURSIVE SetMax(_)
SetMax(S) == IF S = {} THEN 0
             ELSE LET x == CHOOSE x \in S : TRUE
                  IN Max2(x, SetMax(S \ {x}))

\* Option<Box<MemristiveGate>>::None
NoCell == [none |-> TRUE]

\* TableGate::default() with the fields the parser fills in
TableGate(fanin, in0, in1, out) ==
    [fanin |-> fanin, inputs |-> <<in0, in1>>, out |-> out,
     asap_level |-> -1, alap_level |-> -1, list_level |-> -1, list_time |-> -1,
     mobility |-> 0, is_output |-> FALSE, gate_map |-> NoCell]

\* ----------------------------------------------------------- gate universes
PI(j) == MAX_GATES + j

\* the wire produced by the k-th gate of a generated table: the first gate's
\* wire is negative (a compiler-generated wire) when neg holds
OutWire(k, neg) == IF neg /\ k = 1 THEN -1 ELSE k

\* the <<fanin, operand 1, operand 2>> a gate of a table of n gates may have: a
\* NOT (if 1 \in fanins) or a NOR (if 2 \in fanins) over the primary inputs
\* 0..np-1 and the wires of the n gates; unordered universes list a NOR's
\* operands in one order only
GateShapes(n, np, neg, ordered, fanins) ==
    LET W == {PI(j) : j \in 0..(np - 1)} \cup {OutWire(j, neg) : j \in 1..n}
    IN {<<1, a, -1>> : a \in {w \in W : 1 \in fanins}}
       \cup {<<2, p[1], p[2]>> :
                p \in {q \in W \X W : 2 \in fanins /\ (ordered \/ q[1] <= q[2])}}

\* the gate table with the shapes sh, the k-th gate producing OutWire(k, neg)
MkTable(sh, neg) ==
    [k \in 1..Len(sh) |-> TableGate(sh[k][1], sh[k][2], sh[k][3], OutWire(k, neg))]

\* for every gate, the indices of the gates producing one of its operands
Producers(t) ==
    [i \in 1..Len(t) |->
        {j \in 1..Len(t) : \E k \in 1..t[i].fanin : t[i].inputs[k] = t[j].out}]

\* the gates reached after n rounds of adding every gate whose producers are all in R
RECURSIVE Closure(_, _, _)
Closure(dep, R, n) ==
    IF n = 0 THEN R
    ELSE Closure(dep, {i \in DOMAIN dep : dep[i] \subseteq R}, n - 1)

\* the gate graph is a DAG
Acyclic(t) == Closure(Producers(t), {}, Len(t)) = 1..Len(t)

\* gates is an acyclic gate table of at most maxn gates, in any order of the gates
TableInit(maxn, np, negs, ordered, fanins) ==
    \E neg \in negs : \E n \in 0..maxn :
        \E sh \in [1..n -> GateShapes(n, np, neg, ordered, fanins)] :
            LET t == MkTable(sh, neg)
            IN /\ Acyclic(t)
               /\ gates = t

\* chain a_1 .. a_L of inverters, every a_i also driving an output inverter p_i,
\* listed in netlist order a_1, p_1, a_2, p_2, ...
Ladder(L) ==
    [k \in 1..(2 * L) |->
        IF k % 2 = 1
        THEN TableGate(1, IF k = 1 THEN PI(0) ELSE k - 2, -1, k)
        ELSE TableGate(1, k - 1, -1, k)]

\* a reconvergent circuit of five gates, in netlist order:
\* n1 = !x0, n2 = !x0, n3 = !n1, n4 = !n5, n5 = n2 + n3
Reconvergent ==
    <<TableGate(1, PI(0), -1, 1), TableGate(1, PI(0), -1, 2), TableGate(1, 1, -1, 3),
      TableGate(1, 5, -1, 4), TableGate(2, 2, 3, 5)>>

\* one primary input, NOT and NOR gates: the scheduler treats every primary
\* input alike and a NOR's operands symmetrically
SchedTables == TableInit(MaxGates, 1, {FALSE}, FALSE, {1, 2})
\* one primary input, NOT gates only
InverterTables == TableInit(MaxInverters, 1, {FALSE}, FALSE, {1})
\* two primary inputs, NOT and NOR gates with operands in both orders, with and
\* without a compiler-generated wire
MapTables == TableInit(MaxMapGates, 2, {FALSE, TRUE}, TRUE, {1, 2})
LadderTables == {Ladder(L) : L \in 1..MaxLadder}
ExampleTables == {Reconvergent}

\* ----------------------------------------------------------- netlist text
\* the variables xN and nN as they are written in a line
X(n) == <<"x", n>>
N(n) == <<"n", n>>

\* a line "lhs = rhs": the variables written left and right of the equals sign
Line(l, r) == [dot |-> FALSE, lhs |-> l, rhs |-> r]
\* a line without any variable
BlankLine == Line(<<>>, <<>>)
\* a line that starts with '.'
DotLine == [dot |-> TRUE, lhs |-> <<>>, rhs |-> <<>>]

\* one-line netlists: an internal, an output-tagged or an untagged-at-the-bias
\* left-hand wire, and any right-hand side over two primary inputs and two wires
RichLhs == {<<N(3)>>, <<N(OUT_BIAS)>>, <<N(OUT_BIAS + 3)>>}
RichRhs == {X(0), X(1), N(1), N(2)}
RichInit ==
    \E l \in RichLhs : \E m \in 0..MaxRhs : \E r \in [1..m -> RichRhs] :
        netlist = <<Line(l, r)>>

\* one-line netlists whose left-hand variable is written xN
XLhsInit ==
    \E m \in 0..MaxRhs : \E r \in [1..m -> {N(1), N(2)}] :
        netlist = <<Line(<<X(3)>>, r)>>

\* the j-th right-hand variable of the k-th line of a several-line netlist:
\* x0, the previous line's wire (x1 on the first line), x1, x0, x0, ...
PatternTok(k, j) ==
    IF j = 2 /\ k > 1 THEN N(k - 1)
    ELSE IF j \in {2, 3} THEN X(1) ELSE X(0)

\* the k-th line of a several-line netlist: wire nk, output-tagged or not, with
\* the first m right-hand variables, or a blank line, or a '.' line
PatternLine(k, m, tagged) ==
    IF m = MaxRhs + 1 THEN BlankLine
    ELSE IF m = MaxRhs + 2 THEN DotLine
    ELSE Line(<<N(IF tagged THEN OUT_BIAS + k ELSE k)>>,
              [j \in 1..m |-> PatternTok(k, j)])

PatternInit ==
    \E n \in 0..MaxLines : \E f \in [1..n -> (0..(MaxRhs + 2)) \X BOOLEAN] :
        netlist = [k \in 1..n |-> PatternLine(k, f[k][1], f[k][2])]

\* "n3 = x1 + x2"; an output n10001 read by the next line; a gate that reads
\* its own output, alone ("n1 = n1") and after an inverter of x0; an inverter
\* of the primary input x500, and one of x999
ExampleNetlists ==
    {<<Line(<<N(3)>>, <<X(1), X(2)>>)>>,
     <<Line(<<N(OUT_BIAS + 1)>>, <<X(0)>>),
       Line(<<N(2)>>, <<N(OUT_BIAS + 1), X(1)>>)>>,
     <<Line(<<N(1)>>, <<N(1)>>)>>,
     <<Line(<<N(1)>>, <<X(0)>>), Line(<<N(2)>>, <<N(1), N(2)>>)>>,
     <<Line(<<N(1)>>, <<X(MAX_ROW)>>)>>,
     <<Line(<<N(1)>>, <<X(MAX_COL - 1)>>)>>}

\* ------------------------------------------------------------------- parser
IsX(t) == t[1] = "x"
IsN(t) == t[1] = "n"

\* count_variables: the number of 'n' and 'x' characters of the line
count_variables(line) == Len(line.lhs) + Len(line.rhs)

\* x_regex.captures_iter(side): MAX_GATES + id of every xN, in order
XIds(side) ==
    LET xs == SelectSeq(side, IsX) IN [i \in 1..Len(xs) |-> MAX_GATES + xs[i][2]]

\* n_regex.captures_iter(side): id of every nN, in order
NIds(side) ==
    LET ns == SelectSeq(side, IsN) IN [i \in 1..Len(ns) |-> ns[i][2]]

\* extract_variables: the first nN of the left side, then the xN of the right
\* side, then the nN of the right side
extract_variables(line) ==
    IF count_variables(line) = 0 THEN <<>>
    ELSE (IF Len(NIds(line.lhs)) > 0 THEN <<NIds(line.lhs)[1]>> ELSE <<>>)
         \o XIds(line.rhs) \o NIds(line.rhs)

\* if v >= OUT_BIAS { v - OUT_BIAS } else { v }
StripBias(v) == IF v >= OUT_BIAS THEN v - OUT_BIAS ELSE v

\* match arm 2: NOT gate
ParseTwo(v) ==
    <<[TableGate(1, StripBias(v[2]), -1, StripBias(v[1]))
          EXCEPT !.is_output = (v[1] >= OUT_BIAS)]>>

\* match arm 3: 2-input NOR
ParseThree(v) ==
    <<[TableGate(2, StripBias(v[2]), StripBias(v[3]), StripBias(v[1]))
          EXCEPT !.is_output = (v[1] >= OUT_BIAS)]>>

\* ParseFour with the first two operands combined first
ParseFourLeft(v, t) ==
    <<TableGate(2, v[2], v[3], -t), TableGate(2, -t, v[4], v[1])>>

\* match arm 4: two 2-input NOR gates in cascade
ParseFour(v, t) ==
    <<TableGate(2, v[3], v[4], -t), TableGate(2, v[2], -t, v[1])>>

\* match arm 5: three 2-input NOR gates in two levels
ParseFive(v, t) ==
    <<TableGate(2, v[2], v[3], -t), TableGate(2, v[4], v[5], -(t + 1)),
      TableGate(2, -t, -(t + 1), v[1])>>

\* the gates one line pushes, for its var_ids v and the current temp_var t
ParseGates(v, t) ==
    IF Len(v) = 2 THEN ParseTwo(v)
    ELSE IF Len(v) = 3 THEN ParseThree(v)
    ELSE IF Len(v) = 4 THEN ParseFour(v, t)
    ELSE ParseFive(v, t)

\* NextTempVar with temp_var left as it is
NextTempVarStuck(t, n) == t

\* temp_var += 1 in arm 4, temp_var += 2 in arm 5
NextTempVar(t, n) == IF n = 4 THEN t + 1 ELSE IF n = 5 THEN t + 2 ELSE t

\* circuit.num_outputs += 1 in arms 2 and 3 when var_ids[0] >= OUT_BIAS
NextNumOutputs(no, v) ==
    IF Len(v) \in {2, 3} /\ v[1] >= OUT_BIAS THEN no + 1 ELSE no

\* find_primary_inputs: num_inputs = 1 + the highest primary-input number used
find_primary_inputs(gs) ==
    1 + SetMax({gs[k].inputs[j] - MAX_GATES :
                  <<k, j>> \in {p \in (1..Len(gs)) \X (1..2) :
                                   /\ p[2] <= gs[p[1]].fanin
                                   /\ gs[p[1]].inputs[p[2]] >= MAX_GATES}})

\* ---------------------------------------------------------------- scheduler
\* is_pi: no gate produces line_id
is_pi(gs, line_id) == \A i \in 1..Len(gs) : gs[i].out # line_id

\* is_po: no gate consumes line_id
is_po(gs, line_id) ==
    \A i \in 1..Len(gs) : \A j \in 1..gs[i].fanin : gs[i].inputs[j] # line_id

\* index of the first gate producing line_id (the for loops return at the first match)
FirstProducer(gs, line_id) ==
    CHOOSE i \in 1..Len(gs) :
        /\ gs[i].out = line_id
        /\ \A j \in 1..(i - 1) : gs[j].out # line_id

get_asap_level(gs, line_id) ==
    IF is_pi(gs, line_id) THEN 0 ELSE gs[FirstProducer(gs, line_id)].asap_level

\* get_list_level with an unassigned producer read as level 0
get_list_level_unassigned_zero(gs, line_id) ==
    IF is_pi(gs, line_id) THEN 0
    ELSE Max2(0, gs[FirstProducer(gs, line_id)].list_level)

get_list_level(gs, line_id) ==
    IF is_pi(gs, line_id) THEN 0 ELSE gs[FirstProducer(gs, line_id)].list_level

\* AsapVisit with a NOR levelled from its first operand alone
AsapVisitFirstOperand(st, i) ==
    LET gs == st.gs
        l1 == get_asap_level(gs, gs[i].inputs[1])
        l2 == IF gs[i].fanin = 2 THEN get_asap_level(gs, gs[i].inputs[2]) ELSE 0
        lv == l1 + 1
    IN IF gs[i].fanin \in {1, 2} /\ l1 # -1 /\ l2 # -1
       THEN [gs |-> [gs EXCEPT ![i].asap_level = lv],
             mx |-> IF lv > st.mx THEN lv ELSE st.mx,
             cnt |-> st.cnt + 1]
       ELSE st

\* the body of the for loop of compute_asap_schedule for gate i (1-based), on
\* the loop state st = [gs, mx, cnt]
AsapVisit(st, i) ==
    LET gs == st.gs
        l1 == get_asap_level(gs, gs[i].inputs[1])
        l2 == IF gs[i].fanin = 2 THEN get_asap_level(gs, gs[i].inputs[2]) ELSE 0
        lv == (IF gs[i].fanin = 2 THEN Max2(l1, l2) ELSE l1) + 1
    IN IF gs[i].fanin \in {1, 2} /\ l1 # -1 /\ l2 # -1
       THEN [gs |-> [gs EXCEPT ![i].asap_level = lv],
             mx |-> IF lv > st.mx THEN lv ELSE st.mx,
             cnt |-> st.cnt + 1]
       ELSE st

\* for i in 0..circuit.num_gates { ... } : one pass of the while loop
RECURSIVE AsapFor(_, _, _)
AsapFor(st, i, n) == IF i > n THEN st ELSE AsapFor(AsapVisit(st, i), i + 1, n)

\* update_alap(circuit, index, line_id): the consumers are scanned in table
\* order, operand by operand, and the gate's alap_level is raised in place
RECURSIVE UpdateAlapScan(_, _, _, _, _)
UpdateAlapScan(gs, index, line_id, j, k) ==
    IF j > Len(gs) THEN gs
    ELSE IF k > gs[j].fanin THEN UpdateAlapScan(gs, index, line_id, j + 1, 1)
    ELSE UpdateAlapScan(
            IF /\ line_id = gs[j].inputs[k]
               /\ gs[j].alap_level # -1
               /\ gs[index].alap_level <= gs[j].alap_level
            THEN [gs EXCEPT ![index].alap_level = gs[j].alap_level + 1]
            ELSE gs,
            index, line_id, j, k + 1)

update_alap(gs, index, line_id) == UpdateAlapScan(gs, index, line_id, 1, 1)

all_alap_labeled(gs) == \A i \in 1..Len(gs) : gs[i].alap_level # -1

\* for i in 0..circuit.num_gates { update_alap(circuit, i, circuit.gates[i].out) }
RECURSIVE AlapFor(_, _)
AlapFor(gs, i) ==
    IF i > Len(gs) THEN gs ELSE AlapFor(update_alap(gs, i, gs[i].out), i + 1)

\* n passes of the loop above
RECURSIVE AlapPasses(_, _)
AlapPasses(gs, n) == IF n = 0 THEN gs ELSE AlapPasses(AlapFor(gs, 1), n - 1)

\* the inversion: alap_level <- max_level - alap_level + 1, max_level starting at 0
AlapMax(gs) == SetMax({gs[i].alap_level : i \in 1..Len(gs)} \cup {0})

AlapCorrected(gs) ==
    [i \in 1..Len(gs) |->
        [gs[i] EXCEPT !.alap_level = AlapMax(gs) - gs[i].alap_level + 1]]

\* Vec::sort_by is a stable sort: an element moves behind the elements with a
\* smaller key and behind the earlier elements with the same key
SortedPos(keys, i) ==
    1 + Cardinality({j \in 1..Len(keys) : keys[j] < keys[i]})
      + Cardinality({j \in 1..(i - 1) : keys[j] = keys[i]})

StableSort(s, keys) ==
    [p \in 1..Len(s) |-> s[CHOOSE i \in 1..Len(s) : SortedPos(keys, i) = p]]

\* circuit.gates.sort_by(|a, b| a.mobility.cmp(&b.mobility))
SortByMobility(gs) == StableSort(gs, [i \in 1..Len(gs) |-> gs[i].mobility])

\* SortByAsap with the table left in the order it has
SortKept(gs) == gs

\* circuit.gates.sort_by(|a, b| a.asap_level.cmp(&b.asap_level))
SortByAsap(gs) == StableSort(gs, [i \in 1..Len(gs) |-> gs[i].asap_level])

\* the first loop of compute_list_schedule
WithMobility(gs) ==
    [i \in 1..Len(gs) |->
        [gs[i] EXCEPT !.mobility = gs[i].alap_level - gs[i].asap_level]]

ListMaxLevel(gs) == SetMax({gs[i].asap_level : i \in 1..Len(gs)} \cup {0})

ResetListLevels(gs) == [i \in 1..Len(gs) |-> [gs[i] EXCEPT !.list_level = -1]]

\* the for loop of list_schedule_possible from gate i on; st = [gs, ngates,
\* mla (max_level_assigned), gil (gates_in_level), flag]; the loop breaks
\* when gates_in_level reaches max_gates
RECURSIVE ListFor(_, _, _)
ListFor(st, i, max_gates) ==
    IF i > Len(st.gs) THEN st
    ELSE LET gs == st.gs
             l1 == get_list_level(gs, gs[i].inputs[1])
             l2 == IF gs[i].fanin = 2 THEN get_list_level(gs, gs[i].inputs[2]) ELSE 0
             lv == (IF gs[i].fanin = 2 THEN Max2(l1, l2) ELSE l1) + 1
             hit == gs[i].fanin \in {1, 2} /\ l1 # -1 /\ l2 # -1
             nx == IF hit
                   THEN [gs |-> [gs EXCEPT ![i].list_level = lv],
                         ngates |-> st.ngates + 1,
                         mla |-> IF st.mla < lv THEN lv ELSE st.mla,
                         gil |-> st.gil + 1,
                         flag |-> TRUE]
                   ELSE st
         IN IF hit /\ nx.gil = max_gates THEN nx ELSE ListFor(nx, i + 1, max_gates)

\* the while loop of list_schedule_possible; the result is [gs, ok]
RECURSIVE ListWhile(_, _, _)
ListWhile(st, mlevel, max_gates) ==
    IF st.ngates >= Len(st.gs)
    THEN [gs |-> st.gs, ok |-> (st.mla = mlevel)]
    ELSE LET ps == ListFor([st EXCEPT !.gil = 0, !.flag = FALSE], 1, max_gates)
         IN IF ~ps.flag THEN [gs |-> ps.gs, ok |-> FALSE]
            ELSE ListWhile(ps, mlevel, max_gates)

list_schedule_possible(gs, mlevel, max_gates) ==
    ListWhile([gs |-> gs, ngates |-> 0, mla |-> 0, gil |-> 0, flag |-> FALSE],
              mlevel, max_gates)

\* ------------------------------------------------------------------- mapper
\* MemristiveGate::default()
DefaultCell ==
    [fanin |-> 0, inputs |-> <<NoCell, NoCell>>, value |-> -1, idx |-> -1,
     jdx |-> -1, asap_level |-> -1, is_copy |-> FALSE]

\* mapping.crossbar[r][c]: a cell never written still holds the reset default
CellAt(cb, r, c) == IF <<r, c>> \in DOMAIN cb THEN cb[<<r, c>>] ELSE DefaultCell

\* inv_map.contains_key(w): inv_map holds the out wire of every gate
InvHas(gs, w) == \E i \in 1..Len(gs) : gs[i].out = w

\* inv_map[w]: a later insert of the same key replaces the earlier one
InvGet(gs, w) ==
    CHOOSE i \in 1..Len(gs) :
        /\ gs[i].out = w
        /\ \A j \in (i + 1)..Len(gs) : gs[j].out # w

\* the row an operand wire lives on (map_idx of a NOT, temp_idx / temp_udx of a NOR)
OperandRow(gs, ninp, ip) ==
    IF ip >= MAX_GATES
    THEN (IF ip - MAX_GATES < ninp THEN ip - MAX_GATES ELSE 0)
    ELSE IF InvHas(gs, ip)
         THEN (IF gs[InvGet(gs, ip)].gate_map # NoCell
               THEN gs[InvGet(gs, ip)].gate_map.idx ELSE 0)
         ELSE 0

\* the column an operand wire lives in (temp_jdx / temp_vdx)
OperandCol(gs, ip) ==
    IF ip >= MAX_GATES THEN 0
    ELSE IF InvHas(gs, ip)
         THEN (IF gs[InvGet(gs, ip)].gate_map # NoCell
               THEN gs[InvGet(gs, ip)].gate_map.jdx ELSE 0)
         ELSE 0

\* "Connect input" of the NOT branch: the operand's cell, cloned, or None
NotInput(gs, cb, ninp, ip) ==
    IF ip >= MAX_GATES
    THEN (IF ip - MAX_GATES < ninp THEN CellAt(cb, ip - MAX_GATES, 0) ELSE NoCell)
    ELSE IF InvHas(gs, ip) THEN gs[InvGet(gs, ip)].gate_map
         ELSE NoCell

\* the copy gate of the different-rows branch, before its coordinates are set
CopySource(gs, cb, ninp, ip) ==
    IF ip >= MAX_GATES \/ (ip > 0 /\ InvHas(gs, ip))
    THEN [DefaultCell EXCEPT
            !.is_copy = TRUE,
            !.inputs = <<IF ip >= MAX_GATES
                         THEN (IF ip - MAX_GATES < ninp
                               THEN CellAt(cb, ip - MAX_GATES, 0)
                               ELSE CellAt(cb, 0, 0))
                         ELSE IF gs[InvGet(gs, ip)].gate_map # NoCell
                              THEN gs[InvGet(gs, ip)].gate_map
                              ELSE CellAt(cb, 0, 0),
                         NoCell>>,
            !.value = ip]
    ELSE [DefaultCell EXCEPT !.is_copy = TRUE]

\* the body of the "Map gates" loop for a NOT gate; m = [gs, cb, av, mxi, mxj]
PlaceNot(m, i, ninp) ==
    LET g == m.gs[i]
        ip1 == g.inputs[1]
        map_idx == OperandRow(m.gs, ninp, ip1)
        map_jdx == m.av[map_idx]
        mem_gate == [DefaultCell EXCEPT
                        !.idx = map_idx, !.jdx = map_jdx, !.fanin = 1,
                        !.value = g.out, !.asap_level = g.asap_level,
                        !.inputs = <<NotInput(m.gs, m.cb, ninp, ip1), NoCell>>]
    IN [gs |-> [m.gs EXCEPT ![i].gate_map = mem_gate],
        cb |-> (<<map_idx, map_jdx>> :> mem_gate) @@ m.cb,
        av |-> [m.av EXCEPT ![map_idx] = @ + 1],
        mxi |-> m.mxi,
        mxj |-> Max2(m.mxj, map_jdx),
        last |-> [kind |-> "not", r1 |-> map_idx, r2 |-> map_idx,
                  idx |-> map_idx, jdx |-> map_jdx, gate |-> i]]

\* av_row after a NOR went to row: the chosen branch of "Decide where to place
\* the NOR gate" increments av_row[idx] once (both branches do), and
\* "Increment available column counter for the chosen row" increments it again
NorAvRow(av, row) ==
    LET in_branch == [av EXCEPT ![row] = @ + 1]
    IN [in_branch EXCEPT ![row] = @ + 1]

\* NorRow with the copy made onto operand 1's row
NorRowFirstOperand(temp_idx, temp_udx) == temp_idx

\* the row the NOR goes to: idx = temp_idx when both operands share a row,
\* idx = temp_udx (operand 2's row) otherwise
NorRow(temp_idx, temp_udx) == IF temp_idx = temp_udx THEN temp_idx ELSE temp_udx

\* NorInput0 with input1 always operand 1's own cell, never the copy
NorInput0Original(cb, temp_idx, temp_jdx, temp_udx, map_idx, map_jdx) ==
    CellAt(cb, temp_idx, temp_jdx)

\* "Connect inputs based on placement scenario": input1 is operand 1's cell
\* when both operands share a row and the cell left of the NOR (the copy) otherwise
NorInput0(cb, temp_idx, temp_jdx, temp_udx, map_idx, map_jdx) ==
    IF temp_idx = temp_udx THEN CellAt(cb, temp_idx, temp_jdx)
    ELSE CellAt(cb, map_idx, map_jdx - 1)

\* the body of the "Map gates" loop for a NOR gate
PlaceNor(m, i, ninp) ==
    LET g == m.gs[i]
        ip1 == g.inputs[1]
        ip2 == g.inputs[2]
        temp_idx == OperandRow(m.gs, ninp, ip1)
        temp_jdx == OperandCol(m.gs, ip1)
        temp_udx == OperandRow(m.gs, ninp, ip2)
        temp_vdx == OperandCol(m.gs, ip2)
        same == temp_idx = temp_udx
        map_idx == NorRow(temp_idx, temp_udx)
        jdx == m.av[map_idx]
        map_jdx == IF same THEN jdx ELSE jdx + 1
        copy_gate == [CopySource(m.gs, m.cb, ninp, ip1) EXCEPT
                         !.idx = map_idx, !.jdx = jdx]
        cb1 == IF same THEN m.cb ELSE (<<map_idx, jdx>> :> copy_gate) @@ m.cb
        mem_gate == [DefaultCell EXCEPT
                        !.asap_level = g.asap_level, !.value = g.out,
                        !.idx = map_idx, !.jdx = map_jdx, !.fanin = 2,
                        !.inputs = <<NorInput0(cb1, temp_idx, temp_jdx, temp_udx,
                                               map_idx, map_jdx),
                                     CellAt(cb1, temp_udx, temp_vdx)>>]
    IN [gs |-> [m.gs EXCEPT ![i].gate_map = mem_gate],
        cb |-> (<<map_idx, map_jdx>> :> mem_gate) @@ cb1,
        av |-> NorAvRow(m.av, map_idx),
        mxi |-> Max2(m.mxi, map_idx),
        mxj |-> Max2(m.mxj, map_jdx),
        last |-> [kind |-> IF same THEN "nor_same" ELSE "nor_copy",
                  r1 |-> temp_idx, r2 |-> temp_udx,
                  idx |-> map_idx, jdx |-> map_jdx, gate |-> i]]

\* if circuit.gates[i].fanin == 1 { NOT } else { NOR }
PlaceGate(m, i, ninp) ==
    IF m.gs[i].fanin = 1 THEN PlaceNot(m, i, ninp) ELSE PlaceNor(m, i, ninp)

\* ResetGateMaps that also clears the list schedule
ResetGateMapsAndLevels(gs) ==
    [i \in 1..Len(gs) |-> [gs[i] EXCEPT !.gate_map = NoCell, !.list_level = -1]]

\* "Reset gate mappings"
ResetGateMaps(gs) == [i \in 1..Len(gs) |-> [gs[i] EXCEPT !.gate_map = NoCell]]

\* "Map primary inputs - each in its own row"
CompactInputCells(ninp) ==
    [p \in {<<i, 0>> : i \in 0..(ninp - 1)} |->
        [DefaultCell EXCEPT !.value = MAX_GATES + p[1], !.idx = p[1], !.jdx = 0]]

\* "Map primary inputs to the first row of the crossbar"
NaiveInputCells(ninp) ==
    [p \in {<<0, j>> : j \in 0..(ninp - 1)} |->
        [DefaultCell EXCEPT !.value = MAX_GATES + p[2], !.idx = 0, !.jdx = p[2]]]

\* NaiveColumn with the gate written at max_jdx itself
NaiveColumnSame(mxj) == mxj

\* "Increment the column index for the next gate": mapping.max_jdx += 1
NaiveColumn(mxj) == mxj + 1

\* NaiveGateCell without the gate's asap_level
NaiveGateCellNoLevel(g, col) ==
    [DefaultCell EXCEPT !.fanin = g.fanin, !.value = g.out, !.jdx = col, !.idx = 0]

\* "Place the gate in the crossbar": the fields written into crossbar[0][max_jdx]
NaiveGateCell(g, col) ==
    [DefaultCell EXCEPT !.fanin = g.fanin, !.value = g.out, !.jdx = col, !.idx = 0,
                        !.asap_level = g.asap_level]

\* "Connect the first input" / "Connect the second input": a primary input's
\* cell, the producing gate's gate_map when the wire id is positive, or None
NaiveInput(gs, cb, ninp, ip) ==
    IF ip >= MAX_GATES
    THEN (IF ip - MAX_GATES < ninp THEN CellAt(cb, 0, ip - MAX_GATES) ELSE NoCell)
    ELSE IF ip > 0 /\ InvHas(gs, ip) THEN gs[InvGet(gs, ip)].gate_map
         ELSE NoCell

\* the body of the "Map gates" loop of create_naive_mapping; m = [gs, cb, mxj]
NaivePlaceGate(m, i, ninp) ==
    LET g == m.gs[i]
        col == NaiveColumn(m.mxj)
        ip1 == g.inputs[1]
        ip2 == IF g.fanin > 1 THEN g.inputs[2] ELSE -1
        placed == NaiveGateCell(g, col)
        gs1 == [m.gs EXCEPT ![i].gate_map = placed]
        in0 == NaiveInput(gs1, m.cb, ninp, ip1)
        in1 == IF g.fanin > 1 /\ ip2 # -1 THEN NaiveInput(gs1, m.cb, ninp, ip2)
               ELSE NoCell
    IN [gs |-> gs1,
        cb |-> (<<0, col>> :> [placed EXCEPT !.inputs = <<in0, in1>>]) @@ m.cb,
        mxj |-> col,
        last |-> [kind |-> "naive", r1 |-> 0, r2 |-> 0, idx |-> 0, jdx |-> col,
                  gate |-> i]]

\* every written cell lies inside the MAX_ROW x MAX_COL vectors
InBounds(cb) == \A p \in DOMAIN cb : p[1] < MAX_ROW /\ p[2] < MAX_COL

\* ---------------------------------------------------------------- generator
\* format_wire(id): the net name, as its prefix and its number
format_wire(id) ==
    IF id >= MAX_GATES THEN [prefix |-> "ip", n |-> id - MAX_GATES + 1]
    ELSE IF id > 0 THEN [prefix |-> "wr", n |-> id]
    ELSE [prefix |-> "op", n |-> -id]

\* generate_magic_verilog: the gate instances g1, g2, ... of the listing, over
\* a copy of the table sorted by asap_level; each is the gate with its net names
generate_magic_verilog(gs) ==
    LET sorted_gates == SortByAsap(gs)
    IN [i \in 1..Len(gs) |->
           [gate |-> sorted_gates[i],
            out |-> format_wire(sorted_gates[i].out),
            ins |-> [k \in 1..(IF sorted_gates[i].fanin = 1 THEN 1 ELSE 2) |->
                        format_wire(sorted_gates[i].inputs[k])]]]

\* generate_micro_ops: the cells the two inner loops visit, row by row
RowMajor(mxi, mxj) ==
    [k \in 1..((mxi + 1) * (mxj + 1)) |->
        <<(k - 1) \div (mxj + 1), (k - 1) % (mxj + 1)>>]

\* generate_micro_ops: "Skip irrelevant gates" negated, for the level l
Printed(c, l) ==
    ~(c.value = -1 \/ c.value >= MAX_GATES \/ c.is_copy \/ c.asap_level # l)

\* generate_micro_ops: the cells printed by the iteration l of the outer loop
LevelOps(cb, l, mxi, mxj) ==
    LET Keep(p) == Printed(CellAt(cb, p[1], p[2]), l)
    IN SelectSeq(RowMajor(mxi, mxj), Keep)

\* generate_micro_ops: for l in 0..circuit.max_asap, from the level l on; the
\* coordinates of the instructions written, in the order they are written
RECURSIVE MicroOps(_, _, _, _, _)
MicroOps(cb, l, masap, mxi, mxj) ==
    IF l >= masap THEN <<>>
    ELSE LevelOps(cb, l, mxi, mxj) \o MicroOps(cb, l + 1, masap, mxi, mxj)

\* generate_micro_ops(circuit, mapping, ..)
generate_micro_ops(cb, masap, mxi, mxj) == MicroOps(cb, 0, masap, mxi, mxj)

\* ------------------------------------------------------------------ actions
Init ==
    /\ \/ /\ \/ SchedTables
             \/ InverterTables
             \/ MapTables
             \/ gates \in LadderTables \cup ExampleTables
          /\ netlist = <<>>
          /\ num_inputs = find_primary_inputs(gates)
          /\ pc = "asap"
       \/ /\ \/ RichInit
             \/ XLhsInit
             \/ PatternInit
             \/ netlist \in ExampleNetlists
          /\ gates = <<>>
          /\ num_inputs = 0
          /\ pc = "parse"
    /\ ln = 0
    /\ temp_var = 1
    /\ num_outputs = 0
    /\ num_gates = Len(gates)
    /\ max_asap = 0
    /\ max_alap = 0
    /\ max_list = 0
    /\ count = 0
    /\ max_level = 0
    /\ cand = LIST_FIRST_CANDIDATE
    /\ feasible = FALSE
    /\ crossbar = <<>>
    /\ av_row = <<>>
    /\ max_idx = 0
    /\ max_jdx = 0
    /\ mi = 0
    /\ last = [kind |-> "none"]

\* parse_netlist: one iteration of for line in reader.lines() on a line with
\* 2 to 5 variables
ParseLine ==
    /\ pc = "parse"
    /\ ln < Len(netlist)
    /\ ~netlist[ln + 1].dot
    /\ LET var_ids == extract_variables(netlist[ln + 1])
       IN /\ Len(var_ids) \in 2..5
          /\ gates' = gates \o ParseGates(var_ids, temp_var)
          /\ num_gates' = num_gates + Len(ParseGates(var_ids, temp_var))
          /\ num_outputs' = NextNumOutputs(num_outputs, var_ids)
          /\ temp_var' = NextTempVar(temp_var, Len(var_ids))
    /\ ln' = ln + 1
    /\ UNCHANGED <<netlist, num_inputs, max_asap, max_alap, max_list, pc, count,
                   max_level, cand, feasible, crossbar, av_row, max_idx, max_jdx, mi,
                   last>>

\* parse_netlist: bail!("Invalid number of variables in line"), and main returns
ParseFail ==
    /\ pc = "parse"
    /\ ln < Len(netlist)
    /\ ~netlist[ln + 1].dot
    /\ Len(extract_variables(netlist[ln + 1])) \notin 2..5
    /\ pc' = "failed"
    /\ UNCHANGED <<netlist, ln, temp_var, num_outputs, gates, num_gates, num_inputs,
                   max_asap, max_alap, max_list, count, max_level, cand, feasible,
                   crossbar, av_row, max_idx, max_jdx, mi, last>>

\* parse_netlist returns Ok at the end of the file or at a line starting with '.'
ParseReturn ==
    /\ pc = "parse"
    /\ IF ln = Len(netlist) THEN TRUE ELSE netlist[ln + 1].dot
    /\ pc' = "find_pi"
    /\ UNCHANGED <<netlist, ln, temp_var, num_outputs, gates, num_gates, num_inputs,
                   max_asap, max_alap, max_list, count, max_level, cand, feasible,
                   crossbar, av_row, max_idx, max_jdx, mi, last>>

\* main calls find_primary_inputs
FindPrimaryInputs ==
    /\ pc = "find_pi"
    /\ num_inputs' = find_primary_inputs(gates)
    /\ pc' = "asap"
    /\ UNCHANGED <<netlist, ln, temp_var, num_outputs, gates, num_gates, max_asap,
                   max_alap, max_list, count, max_level, cand, feasible, crossbar,
                   av_row, max_idx, max_jdx, mi, last>>

\* compute_asap_schedule: one iteration of while count < circuit.num_gates
AsapPass ==
    /\ pc = "asap"
    /\ count < num_gates
    /\ LET st == AsapFor([gs |-> gates, mx |-> max_asap, cnt |-> count], 1, num_gates)
       IN /\ gates' = st.gs
          /\ max_asap' = st.mx
          /\ count' = st.cnt
    /\ UNCHANGED <<netlist, ln, temp_var, num_outputs, num_gates, num_inputs, max_alap,
                   max_list, pc, max_level, cand, feasible, crossbar, av_row, max_idx,
                   max_jdx, mi, last>>

\* compute_asap_schedule returns
AsapReturn ==
    /\ pc = "asap"
    /\ count >= num_gates
    /\ pc' = "alap"
    /\ UNCHANGED <<netlist, ln, temp_var, num_outputs, gates, num_gates, num_inputs,
                   max_asap, max_alap, max_list, count, max_level, cand, feasible,
                   crossbar, av_row, max_idx, max_jdx, mi, last>>

\* AlapInit with no primary output labelled
AlapInitNoOutputs ==
    /\ pc = "alap"
    /\ pc' = "alap_label"
    /\ UNCHANGED <<netlist, ln, temp_var, num_outputs, gates, num_gates, num_inputs,
                   max_asap, max_alap, max_list, count, max_level, cand, feasible,
                   crossbar, av_row, max_idx, max_jdx, mi, last>>

\* compute_alap_schedule: "Initialize PO levels"
AlapInit ==
    /\ pc = "alap"
    /\ gates' = [i \in 1..Len(gates) |->
                    IF is_po(gates, gates[i].out)
                    THEN [gates[i] EXCEPT !.alap_level = 1] ELSE gates[i]]
    /\ pc' = "alap_label"
    /\ UNCHANGED <<netlist, ln, temp_var, num_outputs, num_gates, num_inputs, max_asap,
                   max_alap, max_list, count, max_level, cand, feasible, crossbar,
                   av_row, max_idx, max_jdx, mi, last>>

\* compute_alap_schedule: one iteration of while !all_alap_labeled(circuit)
AlapLabelPass ==
    /\ pc = "alap_label"
    /\ ~all_alap_labeled(gates)
    /\ gates' = AlapFor(gates, 1)
    /\ UNCHANGED <<netlist, ln, temp_var, num_outputs, num_gates, num_inputs, max_asap,
                   max_alap, max_list, pc, count, max_level, cand, feasible, crossbar,
                   av_row, max_idx, max_jdx, mi, last>>

\* compute_alap_schedule: "Additional iterations to ensure convergence"
AlapExtra ==
    /\ pc = "alap_label"
    /\ all_alap_labeled(gates)
    /\ gates' = AlapPasses(gates, ALAP_EXTRA_PASSES)
    /\ pc' = "alap_correct"
    /\ UNCHANGED <<netlist, ln, temp_var, num_outputs, num_gates, num_inputs, max_asap,
                   max_alap, max_list, count, max_level, cand, feasible, crossbar,
                   av_row, max_idx, max_jdx, mi, last>>

\* compute_alap_schedule: "Correct ALAP levels" and return
AlapCorrect ==
    /\ pc = "alap_correct"
    /\ gates' = AlapCorrected(gates)
    /\ max_alap' = AlapMax(gates)
    /\ pc' = "list"
    /\ UNCHANGED <<netlist, ln, temp_var, num_outputs, num_gates, num_inputs, max_asap,
                   max_list, count, max_level, cand, feasible, crossbar, av_row,
                   max_idx, max_jdx, mi, last>>

\* compute_list_schedule: mobilities, max_level and the sort by mobility
ListInit ==
    /\ pc = "list"
    /\ gates' = SortByMobility(WithMobility(gates))
    /\ max_level' = ListMaxLevel(gates)
    /\ cand' = LIST_FIRST_CANDIDATE
    /\ pc' = "list_try"
    /\ UNCHANGED <<netlist, ln, temp_var, num_outputs, num_gates, num_inputs, max_asap,
                   max_alap, max_list, count, feasible, crossbar, av_row, max_idx,
                   max_jdx, mi, last>>

\* ListAttempt without the break after a successful attempt
ListAttemptNoBreak ==
    /\ pc = "list_try"
    /\ cand < LIST_END_CANDIDATE
    /\ LET r == list_schedule_possible(ResetListLevels(gates), max_level, cand)
       IN /\ gates' = r.gs
          /\ feasible' = r.ok
          /\ max_list' = IF r.ok THEN max_level ELSE max_list
          /\ cand' = cand + 1
          /\ pc' = IF cand + 1 = LIST_END_CANDIDATE THEN "naive" ELSE "list_try"
    /\ UNCHANGED <<netlist, ln, temp_var, num_outputs, num_gates, num_inputs, max_asap,
                   max_alap, count, max_level, crossbar, av_row, max_idx, max_jdx, mi,
                   last>>

\* compute_list_schedule: one iteration of for max_gates in 2..20; the loop is
\* left by the break of a successful attempt or after the last candidate
ListAttempt ==
    /\ pc = "list_try"
    /\ cand < LIST_END_CANDIDATE
    /\ LET r == list_schedule_possible(ResetListLevels(gates), max_level, cand)
       IN /\ gates' = r.gs
          /\ feasible' = r.ok
          /\ max_list' = IF r.ok THEN max_level ELSE max_list
          /\ cand' = IF r.ok THEN cand ELSE cand + 1
          /\ pc' = IF r.ok \/ cand + 1 = LIST_END_CANDIDATE THEN "naive"
                   ELSE "list_try"
    /\ UNCHANGED <<netlist, ln, temp_var, num_outputs, num_gates, num_inputs, max_asap,
                   max_alap, count, max_level, crossbar, av_row, max_idx, max_jdx, mi,
                   last>>

\* create_naive_mapping up to the "Map gates" loop
NaiveInit ==
    /\ pc = "naive"
    /\ gates' = SortByAsap(ResetGateMaps(gates))
    /\ IF num_inputs = 0
       THEN /\ pc' = "compact"
            /\ crossbar' = <<>>
            /\ max_jdx' = 0
       ELSE /\ pc' = "naive_place"
            /\ crossbar' = NaiveInputCells(num_inputs)
            /\ max_jdx' = num_inputs - 1
    /\ max_idx' = 0
    /\ mi' = 0
    /\ UNCHANGED <<netlist, ln, temp_var, num_outputs, num_gates, num_inputs, max_asap,
                   max_alap, max_list, count, max_level, cand, feasible, av_row, last>>

\* create_naive_mapping: one iteration of the "Map gates" loop
NaivePlace ==
    /\ pc = "naive_place"
    /\ mi < num_gates
    /\ NaiveColumn(max_jdx) < MAX_COL
    /\ LET m == NaivePlaceGate([gs |-> gates, cb |-> crossbar, mxj |-> max_jdx],
                               mi + 1, num_inputs)
       IN /\ gates' = m.gs
          /\ crossbar' = m.cb
          /\ max_jdx' = m.mxj
          /\ last' = m.last
    /\ mi' = mi + 1
    /\ UNCHANGED <<netlist, ln, temp_var, num_outputs, num_gates, num_inputs, max_asap,
                   max_alap, max_list, pc, count, max_level, cand, feasible, av_row,
                   max_idx>>

\* create_naive_mapping: mapping.crossbar[0][max_jdx] with max_jdx = MAX_COL is
\* an index out of the row vector: the process panics
NaivePanic ==
    /\ pc = "naive_place"
    /\ mi < num_gates
    /\ NaiveColumn(max_jdx) >= MAX_COL
    /\ pc' = "panic"
    /\ UNCHANGED <<netlist, ln, temp_var, num_outputs, gates, num_gates, num_inputs,
                   max_asap, max_alap, max_list, count, max_level, cand, feasible,
                   crossbar, av_row, max_idx, max_jdx, mi, last>>

\* create_naive_mapping returns the mapping
NaiveReturn ==
    /\ pc = "naive_place"
    /\ mi >= num_gates
    /\ pc' = "compact"
    /\ UNCHANGED <<netlist, ln, temp_var, num_outputs, gates, num_gates, num_inputs,
                   max_asap, max_alap, max_list, count, max_level, cand, feasible,
                   crossbar, av_row, max_idx, max_jdx, mi, last>>

\* create_compact_mapping up to the "Map gates" loop, on a new mapping
CompactInit ==
    /\ pc = "compact"
    /\ num_inputs <= MAX_ROW
    /\ gates' = SortByAsap(ResetGateMaps(gates))
    /\ IF num_inputs = 0
       THEN /\ pc' = "done"
            /\ crossbar' = <<>>
            /\ max_idx' = 0
            /\ UNCHANGED av_row
       ELSE /\ pc' = "compact_place"
            /\ crossbar' = CompactInputCells(num_inputs)
            /\ av_row' = [r \in 0..(num_inputs - 1) |-> 1]
            /\ max_idx' = num_inputs - 1
    /\ max_jdx' = 0
    /\ mi' = 0
    /\ UNCHANGED <<netlist, ln, temp_var, num_outputs, num_gates, num_inputs, max_asap,
                   max_alap, max_list, count, max_level, cand, feasible, last>>

\* create_compact_mapping: one iteration of the "Map gates" loop
CompactPlace ==
    /\ pc = "compact_place"
    /\ mi < num_gates
    /\ LET m == PlaceGate([gs |-> gates, cb |-> crossbar, av |-> av_row,
                           mxi |-> max_idx, mxj |-> max_jdx], mi + 1, num_inputs)
       IN /\ InBounds(m.cb)
          /\ gates' = m.gs
          /\ crossbar' = m.cb
          /\ av_row' = m.av
          /\ max_idx' = m.mxi
          /\ max_jdx' = m.mxj
          /\ last' = m.last
    /\ mi' = mi + 1
    /\ UNCHANGED <<netlist, ln, temp_var, num_outputs, num_gates, num_inputs, max_asap,
                   max_alap, max_list, pc, count, max_level, cand, feasible>>

\* create_compact_mapping: mapping.crossbar[i][0] and av_row[i] with
\* i = MAX_ROW in "Map primary inputs", or a gate or copy cell of the
\* "Map gates" loop outside the vectors: the process panics
CompactPanic ==
    /\ IF pc = "compact" THEN num_inputs > MAX_ROW
       ELSE /\ pc = "compact_place"
            /\ mi < num_gates
            /\ ~InBounds(PlaceGate([gs |-> gates, cb |-> crossbar, av |-> av_row,
                                    mxi |-> max_idx, mxj |-> max_jdx],
                                   mi + 1, num_inputs).cb)
    /\ pc' = "panic"
    /\ UNCHANGED <<netlist, ln, temp_var, num_outputs, gates, num_gates, num_inputs,
                   max_asap, max_alap, max_list, count, max_level, cand, feasible,
                   crossbar, av_row, max_idx, max_jdx, mi, last>>

\* create_compact_mapping returns the mapping
CompactReturn ==
    /\ pc = "compact_place"
    /\ mi >= num_gates
    /\ pc' = "done"
    /\ UNCHANGED <<netlist, ln, temp_var, num_outputs, gates, num_gates, num_inputs,
                   max_asap, max_alap, max_list, count, max_level, cand, feasible,
                   crossbar, av_row, max_idx, max_jdx, mi, last>>

Next ==
    \/ ParseLine
    \/ ParseFail
    \/ ParseReturn
    \/ FindPrimaryInputs
    \/ AsapPass
    \/ AsapReturn
    \/ AlapInit
    \/ AlapLabelPass
    \/ AlapExtra
    \/ AlapCorrect
    \/ ListInit
    \/ ListAttempt
    \/ NaiveInit
    \/ NaivePlace
    \/ NaivePanic
    \/ NaiveReturn
    \/ CompactInit
    \/ CompactPlace
    \/ CompactPanic
    \/ CompactReturn

Spec == Init /\ [][Next]_vars

\* the gate tables and netlists of the runs whose termination is checked: the
\* scheduling universe with tables of at most MaxFairGates gates, the
\* inverter tables, the ladders, the examples and every netlist of Init
FairInit ==
    /\ \/ /\ \/ TableInit(MaxFairGates, 1, {FALSE}, FALSE, {1, 2})
             \/ InverterTables
             \/ gates \in LadderTables \cup ExampleTables
          /\ netlist = <<>>
          /\ num_inputs = find_primary_inputs(gates)
          /\ pc = "asap"
       \/ /\ \/ RichInit
             \/ XLhsInit
             \/ PatternInit
             \/ netlist \in ExampleNetlists
          /\ gates = <<>>
          /\ num_inputs = 0
          /\ pc = "parse"
    /\ ln = 0
    /\ temp_var = 1
    /\ num_outputs = 0
    /\ num_gates = Len(gates)
    /\ max_asap = 0
    /\ max_alap = 0
    /\ max_list = 0
    /\ count = 0
    /\ max_level = 0
    /\ cand = LIST_FIRST_CANDIDATE
    /\ feasible = FALSE
    /\ crossbar = <<>>
    /\ av_row = <<>>
    /\ max_idx = 0
    /\ max_jdx = 0
    /\ mi = 0
    /\ last = [kind |-> "none"]

\* the steps that leave a loop or a function without computing anything
Returns == ParseReturn \/ AsapReturn \/ NaiveReturn \/ CompactReturn

\* the steps that execute a loop body or a straight-line statement
Computes ==
    \/ ParseLine
    \/ ParseFail
    \/ FindPrimaryInputs
    \/ AsapPass
    \/ AlapInit
    \/ AlapLabelPass
    \/ AlapExtra
    \/ AlapCorrect
    \/ ListInit
    \/ ListAttempt
    \/ NaiveInit
    \/ NaivePlace
    \/ NaivePanic
    \/ CompactInit
    \/ CompactPlace
    \/ CompactPanic

\* ENABLED <<Computes>>_vars as a state predicate: the process is at a loop
\* body or a statement whose execution changes the state.  A line, a gate to
\* place or a statement outside the loops always does (pc or a loop index
\* moves); an iteration of the ASAP while loop or of the ALAP labelling loop
\* leaves the state as it is when it levels no gate; the process has ended at
\* done, failed and panic
CanCompute ==
    CASE pc = "parse" ->
            IF ln = Len(netlist) THEN FALSE ELSE ~netlist[ln + 1].dot
      [] pc = "asap" ->
            /\ count < num_gates
            /\ AsapFor([gs |-> gates, mx |-> max_asap, cnt |-> count], 1, num_gates)
                   # [gs |-> gates, mx |-> max_asap, cnt |-> count]
      [] pc = "alap_label" -> all_alap_labeled(gates) \/ AlapFor(gates, 1) # gates
      [] pc \in {"naive_place", "compact_place"} -> mi < num_gates
      [] pc \in {"done", "failed", "panic"} -> FALSE
      [] OTHER -> TRUE

\* the compiler is one sequential process that runs until it ends: weak
\* fairness of its steps, with ENABLED <<Computes>>_vars written as CanCompute
FairSpec ==
    /\ FairInit
    /\ [][Next]_vars
    /\ WF_vars(Returns)
    /\ ([]<>(~CanCompute) \/ []<><<Computes>>_vars)

\* ------------------------------------------------------- claims: scheduler
\* the level of an operand wire: 0 when no gate produces it, else its producer's
WireAsap(w) ==
    IF \E j \in 1..Len(gates) : gates[j].out = w
    THEN gates[CHOOSE j \in 1..Len(gates) : gates[j].out = w].asap_level
    ELSE 0

OperandsOf(i) == {gates[i].inputs[k] : k \in 1..gates[i].fanin}

Parsing == pc \in {"parse", "find_pi", "failed"}
AsapReturned == ~Parsing /\ pc # "asap"
AlapReturned == ~Parsing /\ pc \notin {"asap", "alap", "alap_label", "alap_correct"}
ListStarted ==
    ~Parsing /\ pc \notin {"asap", "alap", "alap_label", "alap_correct", "list"}
ListReturned == pc \in {"naive", "naive_place", "compact", "compact_place", "done"}

\* C1: when compute_asap_schedule has returned (the tables are acyclic, of
\* fanin 1 or 2, with distinct out wires, in any order), no gate is left with
\* asap_level = -1.
C1_AllAssigned ==
    AsapReturned => \A i \in 1..Len(gates) : gates[i].asap_level # -1

\* C2: after compute_asap_schedule every assigned gate has asap_level = 1 + the
\* maximum level of its operands (0 for a wire no gate produces), every operand
\* is assigned a strictly smaller level, and max_asap is the largest level assigned.
C2_AsapLevels ==
    AsapReturned =>
        /\ \A i \in 1..Len(gates) :
              gates[i].asap_level # -1 =>
                 /\ gates[i].asap_level = 1 + SetMax({WireAsap(w) : w \in OperandsOf(i)})
                 /\ \A w \in OperandsOf(i) :
                        WireAsap(w) >= 0 /\ WireAsap(w) < gates[i].asap_level
        /\ max_asap = SetMax({gates[i].asap_level : i \in 1..Len(gates)} \ {-1})

\* C2 witness: ASAP has returned and a NOR whose operands sit on different
\* levels has been assigned
C2_Witness ==
    /\ pc = "alap"
    /\ \E i \in 1..Len(gates) :
          /\ gates[i].fanin = 2
          /\ gates[i].asap_level >= 3
          /\ WireAsap(gates[i].inputs[1]) # WireAsap(gates[i].inputs[2])

\* C3: after compute_alap_schedule (inversion included), every gate g and every
\* gate c that consumes g's out wire satisfy alap_level(g) <= alap_level(c) - 1.
C3_AlapOrder ==
    AlapReturned =>
        \A g \in 1..Len(gates) : \A c \in 1..Len(gates) :
            gates[g].out \in OperandsOf(c) =>
                gates[g].alap_level <= gates[c].alap_level - 1

\* C4: once compute_list_schedule has computed the mobilities, every gate has
\* mobility = alap_level - asap_level and mobility >= 0.
C4_Mobility ==
    ListStarted =>
        \A i \in 1..Len(gates) :
            /\ gates[i].mobility = gates[i].alap_level - gates[i].asap_level
            /\ gates[i].mobility >= 0

\* the list level of an operand wire: 0 when no gate produces it
WireList(w) ==
    IF \E j \in 1..Len(gates) : gates[j].out = w
    THEN gates[CHOOSE j \in 1..Len(gates) : gates[j].out = w].list_level
    ELSE 0

\* C5: when a list-scheduling attempt reports the schedule feasible, every gate
\* has list_level >= 1, every operand produced by a gate has list_level >= 1,
\* and list_level = 1 + the maximum operand list_level.
C5_FeasibleAllAssigned ==
    (ListReturned /\ feasible) =>
        \A i \in 1..Len(gates) :
            /\ gates[i].list_level >= 1
            /\ \A w \in OperandsOf(i) : WireList(w) >= 0
            /\ gates[i].list_level = 1 + SetMax({WireList(w) : w \in OperandsOf(i)})

\* C6: in the list schedule chosen with candidate max_gates_per_level = cand,
\* no list level holds more than cand gates.
C6_LevelCapacity ==
    (ListReturned /\ feasible) =>
        \A L \in {gates[i].list_level : i \in 1..Len(gates)} \ {-1} :
            Cardinality({i \in 1..Len(gates) : gates[i].list_level = L}) <= cand

\* the gate table as every attempt of compute_list_schedule starts from it
ListStart == [i \in 1..Len(gates) |-> [gates[i] EXCEPT !.list_level = -1]]

\* the candidates whose attempt is feasible with top level max_asap
GoodCandidates ==
    {k \in LIST_FIRST_CANDIDATE..(LIST_END_CANDIDATE - 1) :
        list_schedule_possible(ListStart, max_asap, k).ok}

\* C7: compute_list_schedule tries the candidates 2, 3, ..., 19 in increasing
\* order from list levels reset to -1 and stops at the first whose attempt is
\* feasible with top level max_asap: max_list is then max_asap and the list
\* levels kept are that candidate's; if none succeeds max_list keeps its value 0.
C7_FirstFeasibleCandidate ==
    pc = "naive" =>
        IF GoodCandidates # {}
        THEN /\ feasible
             /\ cand \in GoodCandidates
             /\ \A k \in GoodCandidates : cand <= k
             /\ max_list = max_asap
             /\ gates = list_schedule_possible(ListStart, max_asap, cand).gs
        ELSE /\ ~feasible
             /\ max_list = 0
             /\ gates = list_schedule_possible(ListStart, max_asap,
                                                LIST_END_CANDIDATE - 1).gs

\* C7 witness: the list schedule was chosen at a candidate above the first one
C7_Witness ==
    /\ pc = "naive"
    /\ feasible
    /\ cand > LIST_FIRST_CANDIDATE
    /\ max_list = max_asap
    /\ max_list >= 1

\* --------------------------------------------------------- claims: mapper
CompactRunning == pc \in {"compact_place", "done"}

\* C8: during and after create_compact_mapping every placed NOR cell (fanin 2,
\* not a copy) at (r, c) has both input cells present and on row r.
C8_RowLocality ==
    CompactRunning =>
        \A p \in DOMAIN crossbar :
            (crossbar[p].fanin = 2 /\ ~crossbar[p].is_copy) =>
                /\ crossbar[p].idx = p[1]
                /\ crossbar[p].jdx = p[2]
                /\ \A k \in 1..2 :
                      /\ crossbar[p].inputs[k] # NoCell
                      /\ crossbar[p].inputs[k].idx = p[1]

\* C8 witness: the mapper has returned having placed a NOR that reads a copy
C8_Witness ==
    /\ pc = "done"
    /\ \E p \in DOMAIN crossbar :
          /\ crossbar[p].fanin = 2
          /\ crossbar[p].inputs[1] # NoCell
          /\ crossbar[p].inputs[1].is_copy
          /\ crossbar[p].inputs[2] # NoCell
          /\ crossbar[p].inputs[2].fanin >= 1

\* C9: during and after create_compact_mapping, for every row r that holds a
\* cell, av_row[r] = 1 + the largest column of a cell placed on row r.
C9_AvRowHighWater ==
    CompactRunning =>
        \A r \in DOMAIN av_row :
            (\E p \in DOMAIN crossbar : p[1] = r) =>
                av_row[r] = 1 + SetMax({p[2] : p \in {q \in DOMAIN crossbar : q[1] = r}})

\* the row of the cell that evaluates wire w: the row of the non-copy cell
\* carrying w, row 0 when there is none
WireRow(cb, w) ==
    IF \E p \in DOMAIN cb : cb[p].value = w /\ ~cb[p].is_copy
    THEN (CHOOSE p \in DOMAIN cb : cb[p].value = w /\ ~cb[p].is_copy)[1]
    ELSE 0

\* the cells a mapper step wrote
NewCells == DOMAIN crossbar' \ DOMAIN crossbar

\* C10: a step of create_compact_mapping that places a NOR whose operands lie
\* on different rows r1 # r2 creates exactly one is_copy cell, at (r2, c), and
\* the NOR cell at (r2, c + 1); a step that places a NOT, or a NOR whose
\* operands share a row, creates one gate cell and no copy cell.
C10_Step ==
    (pc = "compact_place" /\ mi' = mi + 1) =>
        LET g == gates[mi + 1]
            r1 == WireRow(crossbar, g.inputs[1])
            r2 == WireRow(crossbar, g.inputs[2])
            copies == {p \in NewCells : crossbar'[p].is_copy}
            others == {p \in NewCells : ~crossbar'[p].is_copy}
        IN /\ \A p \in DOMAIN crossbar : crossbar'[p] = crossbar[p]
           /\ Cardinality(others) = 1
           /\ \A p \in others : crossbar'[p].value = g.out /\ crossbar'[p].fanin = g.fanin
           /\ IF g.fanin = 2 /\ r1 # r2
              THEN /\ Cardinality(copies) = 1
                   /\ \A p \in copies :
                         /\ p[1] = r2
                         /\ others = {<<r2, p[2] + 1>>}
              ELSE copies = {}

C10_CopyPlacement == [][C10_Step]_vars

\* C10 witness: the latest step placed a NOR with operands on different rows
\* and the crossbar holds the copy cell and the NOR
C10_Witness ==
    /\ pc = "compact_place"
    /\ last.kind = "nor_copy"
    /\ last.r1 # last.r2
    /\ <<last.idx, last.jdx - 1>> \in DOMAIN crossbar
    /\ crossbar[<<last.idx, last.jdx - 1>>].is_copy
    /\ crossbar[<<last.idx, last.jdx>>].fanin = 2

\* a wire the circuit defines: a primary input or the out wire of a gate
Defined(w) == w >= MAX_GATES \/ \E j \in 1..Len(gates) : gates[j].out = w

\* the ASAP schedule left no gate unassigned
AsapComplete == \A i \in 1..Len(gates) : gates[i].asap_level # -1

\* C11: when create_compact_mapping (on a complete ASAP schedule) has just
\* placed a NOR whose operands, both defined wires of any kind, lie on different
\* rows, the cell left of the NOR is a copy cell (is_copy) whose value is operand
\* 1's wire id, the NOR's inputs[0] is that copy cell, and the NOR's inputs[1] is
\* a non-copy cell whose value is operand 2's wire id.
C11_CopyCarriesOperand ==
    (pc = "compact_place" /\ last.kind = "nor_copy" /\ AsapComplete) =>
        LET g == gates[last.gate]
            copy == CellAt(crossbar, last.idx, last.jdx - 1)
            nor == CellAt(crossbar, last.idx, last.jdx)
        IN (Defined(g.inputs[1]) /\ Defined(g.inputs[2])) =>
              /\ copy.is_copy
              /\ copy.value = g.inputs[1]
              /\ nor.inputs[1] = copy
              /\ nor.inputs[2] # NoCell
              /\ ~nor.inputs[2].is_copy
              /\ nor.inputs[2].value = g.inputs[2]

\* C11 witness: a NOR whose first operand is a compiler-generated wire was
\* placed behind a copy cell
C11_Witness ==
    /\ pc = "compact_place"
    /\ last.kind = "nor_copy"
    /\ AsapComplete
    /\ gates[last.gate].inputs[1] < 0
    /\ Defined(gates[last.gate].inputs[1])
    /\ CellAt(crossbar, last.idx, last.jdx - 1).is_copy

\* create_naive_mapping has returned and create_compact_mapping has not started
NaiveReturned == pc = "compact"

\* C12: after create_naive_mapping, max_idx = 0 and max_jdx = num_inputs +
\* num_gates - 1; the written cells are exactly (0, 0..max_jdx); primary input j
\* is at (0, j); the gates are in nondecreasing asap_level order and the i-th of
\* them (from 0) is at (0, num_inputs + i) with its fanin, out and asap_level.
C12_NaiveLayout ==
    NaiveReturned =>
        /\ max_idx = 0
        /\ max_jdx = num_inputs + num_gates - 1
        /\ DOMAIN crossbar = {<<0, j>> : j \in 0..max_jdx}
        /\ \A j \in 0..(num_inputs - 1) :
              /\ crossbar[<<0, j>>].value = MAX_GATES + j
              /\ crossbar[<<0, j>>].fanin = 0
        /\ \A i \in 1..Len(gates) : \A j \in 1..Len(gates) :
              i < j => gates[i].asap_level <= gates[j].asap_level
        /\ \A i \in 1..Len(gates) :
              LET c == crossbar[<<0, num_inputs + i - 1>>]
              IN /\ c.fanin = gates[i].fanin
                 /\ c.value = gates[i].out
                 /\ c.asap_level = gates[i].asap_level
                 /\ c.idx = 0
                 /\ c.jdx = num_inputs + i - 1

\* C12 witness: a naive mapping of two primary inputs and gates on two levels
C12_Witness ==
    /\ NaiveReturned
    /\ num_inputs >= 2
    /\ num_gates >= 2
    /\ crossbar[<<0, max_jdx>>].asap_level >= 2
    /\ crossbar[<<0, num_inputs>>].asap_level = 1

\* C13: after create_naive_mapping on a complete ASAP schedule, every gate cell
\* has, for each operand position k <= fanin whose wire is defined (a primary
\* input or a gate's out, of either sign), an input cell inputs[k] whose value is
\* that wire id.
C13_NaiveInputs ==
    (NaiveReturned /\ AsapComplete) =>
        \A i \in 1..Len(gates) : \A k \in 1..gates[i].fanin :
            Defined(gates[i].inputs[k]) =>
                LET c == CellAt(crossbar, 0, num_inputs + i - 1)
                IN /\ c.inputs[k] # NoCell
                   /\ c.inputs[k].value = gates[i].inputs[k]

\* a mapper has returned its mapping
MapperReturned == pc \in {"compact", "done"}

\* C14: after create_naive_mapping and after create_compact_mapping, every gate
\* has exactly one non-copy cell carrying its out wire, that cell's value is not
\* the value -1 of an empty cell, and the gate's gate_map holds the cell's
\* coordinates.
C14_OneCellPerGate ==
    MapperReturned =>
        \A i \in 1..Len(gates) :
            LET cells == {p \in DOMAIN crossbar :
                            ~crossbar[p].is_copy /\ crossbar[p].value = gates[i].out}
            IN /\ Cardinality(cells) = 1
               /\ \A p \in cells :
                     /\ crossbar[p].value # DefaultCell.value
                     /\ gates[i].gate_map # NoCell
                     /\ gates[i].gate_map.idx = p[1]
                     /\ gates[i].gate_map.jdx = p[2]

\* C15: a placement step of either mapper leaves every cell written before as
\* it was and writes only new coordinates (one for a gate, two for a copy and
\* its NOR); while a mapper runs and when it has returned, primary input i is
\* the fanin-0 cell of value MAX_GATES + i at (0, i) in the naive mapping and at
\* (i, 0) in the compact mapping.
C15_Step ==
    /\ (pc \in {"naive_place", "compact_place"} /\ mi' = mi + 1) =>
          /\ \A p \in DOMAIN crossbar :
                p \in DOMAIN crossbar' /\ crossbar'[p] = crossbar[p]
          /\ Cardinality(NewCells) = IF last'.kind = "nor_copy" THEN 2 ELSE 1
          /\ \A p \in NewCells : crossbar'[p].idx = p[1] /\ crossbar'[p].jdx = p[2]
    /\ pc' \in {"naive_place", "compact"} =>
          \A i \in 0..(num_inputs' - 1) :
              /\ CellAt(crossbar', 0, i).value = MAX_GATES + i
              /\ CellAt(crossbar', 0, i).fanin = 0
    /\ pc' \in {"compact_place", "done"} =>
          \A i \in 0..(num_inputs' - 1) :
              /\ CellAt(crossbar', i, 0).value = MAX_GATES + i
              /\ CellAt(crossbar', i, 0).fanin = 0

C15_NoCellWrittenTwice == [][C15_Step]_vars

\* C15 witness: both mappers ran on a circuit of two primary inputs and the
\* compact mapping holds a copy cell and gates in two rows
C15_Witness ==
    /\ pc = "done"
    /\ num_inputs >= 2
    /\ \E p \in DOMAIN crossbar : crossbar[p].is_copy
    /\ \E p \in DOMAIN crossbar : \E q \in DOMAIN crossbar :
          /\ p[1] # q[1]
          /\ crossbar[p].fanin >= 1
          /\ crossbar[q].fanin >= 1

\* --------------------------------------------------------- claims: parser
\* a wire id with the output tag removed
Untag(v) == IF v >= OUT_BIAS THEN v - OUT_BIAS ELSE v

\* the line parse_netlist reads next, its var_ids, and the gates the step pushes
NextLine == netlist[ln + 1]
NextIds == extract_variables(NextLine)
Pushed == SubSeq(gates', Len(gates) + 1, Len(gates'))
ReadsLine == pc = "parse" /\ ln < Len(netlist) /\ ~NextLine.dot

\* g is a NOR (fanin 2) or NOT (fanin 1) of the given wires, tags set aside
IsGate(g, fanin, out, in0, in1) ==
    /\ g.fanin = fanin
    /\ Untag(g.out) = Untag(out)
    /\ Untag(g.inputs[1]) = Untag(in0)
    /\ fanin = 2 => Untag(g.inputs[2]) = Untag(in1)

\* C16: a step of parse_netlist on a line whose var_ids are v appends, by
\* Len(v): 2 -> NOT(v1; v2); 3 -> NOR(v1; v2, v3); 4 -> t = NOR(v3, v4) then
\* NOR(v1; v2, t); 5 -> t1 = NOR(v2, v3), t2 = NOR(v4, v5) then NOR(v1; t1, t2)
\* (v1 the output, t, t1, t2 fresh negative wires), in that order and nothing
\* else; with any other Len(v), 0 included, the parse fails.
C16_Step ==
    ReadsLine =>
        LET v == NextIds
            g == Pushed
        IN /\ SubSeq(gates', 1, Len(gates)) = gates
           /\ Len(v) = 2 => (Len(g) = 1 /\ IsGate(g[1], 1, v[1], v[2], -1))
           /\ Len(v) = 3 => (Len(g) = 1 /\ IsGate(g[1], 2, v[1], v[2], v[3]))
           /\ Len(v) = 4 =>
                 /\ Len(g) = 2
                 /\ g[1].out < 0
                 /\ IsGate(g[1], 2, g[1].out, v[3], v[4])
                 /\ IsGate(g[2], 2, v[1], v[2], g[1].out)
           /\ Len(v) = 5 =>
                 /\ Len(g) = 3
                 /\ g[1].out < 0
                 /\ g[2].out < 0
                 /\ g[1].out # g[2].out
                 /\ IsGate(g[1], 2, g[1].out, v[2], v[3])
                 /\ IsGate(g[2], 2, g[2].out, v[4], v[5])
                 /\ IsGate(g[3], 2, v[1], g[1].out, g[2].out)
           /\ Len(v) \in 2..5 => (pc' = "parse" /\ ln' = ln + 1)
           /\ Len(v) \notin 2..5 => (pc' = "failed" /\ Len(g) = 0)

C16_Decomposition == [][C16_Step]_vars

\* C16 witness: a netlist with a line of 4 and a line of 5 variables was parsed
C16_Witness ==
    /\ pc = "find_pi"
    /\ ln = 2
    /\ \E k \in 1..2 : Len(extract_variables(netlist[k])) = 4
    /\ \E k \in 1..2 : Len(extract_variables(netlist[k])) = 5
    /\ Len(gates) = 5

\* the wire ids written in the netlist, as the parser encodes them
WrittenIds ==
    {IF IsX(t) THEN MAX_GATES + t[2] ELSE t[2] :
        t \in UNION {{netlist[k].lhs[j] : j \in 1..Len(netlist[k].lhs)}
                       \cup {netlist[k].rhs[j] : j \in 1..Len(netlist[k].rhs)} :
                     k \in 1..Len(netlist)}}

\* C17: during and after parse_netlist the negative out wires are exactly -1,
\* -2, ..., -(temp_var - 1), generated in that order, each the out of exactly
\* one gate, and none of them is a wire id written in the netlist.
C17_TempWires ==
    Parsing =>
        LET negs == {i \in 1..Len(gates) : gates[i].out < 0}
        IN /\ {gates[i].out : i \in negs} = {-k : k \in 1..(temp_var - 1)}
           /\ \A i \in negs : \A j \in negs :
                 i < j => gates[i].out > gates[j].out
           /\ \A i \in negs : gates[i].out \notin WrittenIds

\* C17 witness: two lines that both needed intermediate wires were parsed
C17_Witness ==
    /\ pc = "find_pi"
    /\ temp_var >= 4
    /\ \E i \in 1..Len(gates) : gates[i].out = -3
    /\ \E i \in 1..Len(gates) : gates[i].inputs[1] = -2 \/ gates[i].inputs[2] = -2

\* the variables of a line in the order they are written, xN as MAX_GATES + N
\* and nN as N
Encoded(side) ==
    [j \in 1..Len(side) |-> IF IsX(side[j]) THEN MAX_GATES + side[j][2] ELSE side[j][2]]

\* C18: for every equation line of the netlist, extract_variables returns the
\* left-hand variable followed by the right-hand variables in the order written.
C18_TextualOrder ==
    \A k \in 1..Len(netlist) :
        (~netlist[k].dot /\ Len(netlist[k].lhs) = 1) =>
            extract_variables(netlist[k])
                = Encoded(netlist[k].lhs) \o Encoded(netlist[k].rhs)

\* C19: a step of parse_netlist on a line `nV = ...` of 2 to 5 variables makes
\* the last gate it pushes the line's output gate: if V > OUT_BIAS its out is
\* V - OUT_BIAS, is_output holds and num_outputs grows by one; otherwise its out
\* is V, is_output does not hold and num_outputs is unchanged.  The operands
\* read from the right-hand side are the ids written there.
C19_Step ==
    (ReadsLine /\ Len(NextLine.lhs) = 1 /\ IsN(NextLine.lhs[1])
        /\ Len(NextIds) \in 2..5) =>
        LET V == NextLine.lhs[1][2]
            g == Pushed
            o == g[Len(g)]
            operands == {g[i].inputs[k] : i \in 1..Len(g), k \in 1..2} \ {-1, -2, -3, -4}
        IN /\ Len(g) >= 1
           /\ IF V > OUT_BIAS
              THEN /\ o.out = V - OUT_BIAS
                   /\ o.is_output
                   /\ num_outputs' = num_outputs + 1
              ELSE /\ o.out = V
                   /\ ~o.is_output
                   /\ num_outputs' = num_outputs
           /\ operands = {Encoded(NextLine.rhs)[j] : j \in 1..Len(NextLine.rhs)}

C19_OutputBias == [][C19_Step]_vars

\* the netlist of the single line "n3 = x1 + x2"
SingleNor == <<Line(<<N(3)>>, <<X(1), X(2)>>)>>

\* C20: on the netlist "n3 = x1 + x2", when parse_netlist, find_primary_inputs,
\* compute_asap_schedule and create_naive_mapping have run: there is exactly one
\* gate, a NOR, num_inputs = 2, max_asap = 1, and the naive crossbar has 1 row
\* and max_jdx + 1 = 3 columns.
C20_SingleNor ==
    (netlist = SingleNor /\ NaiveReturned) =>
        /\ num_gates = 1
        /\ Len(gates) = 1
        /\ gates[1].fanin = 2
        /\ num_inputs = 2
        /\ max_asap = 1
        /\ max_idx = 0
        /\ max_jdx + 1 = 3

\* --------------------------------------------------------------------- C21
\* the mapping main hands to generate_micro_ops: the naive one when
\* create_naive_mapping has returned, the compact one at the end
Generating == pc \in {"compact", "done"}

\* the instructions generate_micro_ops writes for the present mapping
Ops == generate_micro_ops(crossbar, max_asap, max_idx, max_jdx)

\* C21: when a mapper has returned, generate_micro_ops writes exactly one
\* instruction for the cell of every mapped gate, the gates of the highest
\* ASAP level included, and the instructions come by increasing ASAP level
\* and row by row inside a level.
C21_OneInstructionPerGate ==
    Generating =>
        /\ \A i \in 1..Len(gates) :
              gates[i].gate_map # NoCell =>
                  Cardinality({k \in 1..Len(Ops) :
                      Ops[k] = <<gates[i].gate_map.idx, gates[i].gate_map.jdx>>}) = 1
        /\ \A k \in 1..Len(Ops) : \A m \in (k + 1)..Len(Ops) :
              LET a == CellAt(crossbar, Ops[k][1], Ops[k][2])
                  b == CellAt(crossbar, Ops[m][1], Ops[m][2])
              IN \/ a.asap_level < b.asap_level
                 \/ /\ a.asap_level = b.asap_level
                    /\ \/ Ops[k][1] < Ops[m][1]
                       \/ Ops[k][1] = Ops[m][1] /\ Ops[k][2] < Ops[m][2]

\* --------------------------------------------------------------------- C22
\* C22: a gate table with a combinational cycle never makes
\* compute_asap_schedule return normally: the schedule ends with a Cycle
\* error, so that no later stage runs with gates left unassigned.
C22_CycleDetected == AsapReturned => Acyclic(gates)

\* --------------------------------------------------------------------- C23
\* C23: a mapper never aborts and never writes a cell outside the MAX_ROW x
\* MAX_COL crossbar: a placement that does not fit is signalled as a
\* ResourceExhausted error, and a mapping that fits is completed.
C23_NoAbort == pc # "panic" /\ InBounds(crossbar)

\* --------------------------------------------------------------------- C24
\* C24: on an acyclic gate table, the empty one included, each scheduling
\* pass terminates: compute_asap_schedule, compute_alap_schedule and
\* compute_list_schedule, once entered, eventually return.
C24_PassesTerminate ==
    /\ (pc = "asap" /\ Acyclic(gates)) ~> (pc = "alap")
    /\ (pc = "alap" /\ Acyclic(gates)) ~> (pc = "list")
    /\ (pc = "list" /\ Acyclic(gates)) ~> (pc = "naive")

\* the three passes have returned on an acyclic table of two levels whose ASAP
\* and ALAP loops each took more than one pass
C24_Witness ==
    /\ pc = "naive"
    /\ Acyclic(gates)
    /\ max_asap >= 2
    /\ max_alap >= 2
    /\ \A i \in 1..Len(gates) : gates[i].list_level # -1

\* --------------------------------------------------------------------- C25
\* a mapper step that places the gate of index mi (0-based)
Places == pc \in {"naive_place", "compact_place"} /\ mi' = mi + 1

\* C25: create_naive_mapping clears every gate_map and stably sorts the table
\* by asap_level, create_compact_mapping clears every gate_map and stably
\* sorts the table by list_time, and each "Map gates" loop then places the
\* gates in the order of the sorted table, which it leaves as it is.
C25_Step ==
    /\ (pc = "naive" /\ pc' # "naive") =>
           gates' = StableSort(ResetGateMaps(gates),
                               [i \in 1..Len(gates) |-> gates[i].asap_level])
    /\ (pc = "compact" /\ pc' \in {"compact_place", "done"}) =>
           gates' = StableSort(ResetGateMaps(gates),
                               [i \in 1..Len(gates) |-> gates[i].list_time])
    /\ Places =>
           /\ \A j \in 1..Len(gates) : (gates[j].gate_map # NoCell) <=> (j <= mi)
           /\ gates'[mi + 1].gate_map # NoCell
           /\ last'.gate = mi + 1
           /\ gates' = [gates EXCEPT ![mi + 1].gate_map = gates'[mi + 1].gate_map]

Listing == generate_magic_verilog(gates)

\* the name the claim gives the wire w
ClaimedPrefix(w) ==
    IF w >= MAX_GATES THEN "ip"
    ELSE IF \E j \in 1..Len(gates) : gates[j].out = w /\ gates[j].is_output THEN "op"
    ELSE "wr"

\* C26: in the structural output a gate's out net is named op_N exactly when a
\* gate flagged is_output produces it, a wire at or above MAX_GATES is named
\* ip_N, and every other gate output, compiler temporaries included, is named
\* wr_N.
C26_NetNames ==
    pc = "naive" =>
        \A i \in 1..Len(Listing) :
            /\ Listing[i].out.prefix = ClaimedPrefix(Listing[i].gate.out)
            /\ \A k \in 1..Len(Listing[i].ins) :
                   LET w == Listing[i].gate.inputs[k]
                   IN (w >= MAX_GATES \/ \E j \in 1..Len(gates) : gates[j].out = w) =>
                          Listing[i].ins[k].prefix = ClaimedPrefix(w)

\* --------------------------------------------------------------------- C27
\* what the parser produced of a gate
Core(g) == <<g.fanin, g.inputs, g.out, g.is_output>>

\* the number of gates of the table gs with the parser's fields c
CountOf(gs, c) == Cardinality({i \in 1..Len(gs) : Core(gs[i]) = c})

Scheduling == pc \in {"asap", "alap", "alap_label", "alap_correct", "list", "list_try"}
Mapping == pc \in {"naive", "naive_place", "compact", "compact_place"}

\* C27: a step of a scheduling pass leaves every gate_map unset; a step of a
\* mapper leaves the asap_level, alap_level, list_level and mobility of every
\* gate (found by its out wire) as they are; and every step after the parser
\* keeps num_gates equal to the table length and the multiset of (fanin,
\* inputs, out, is_output) of the table.
C27_Step ==
    /\ Scheduling => \A i \in 1..Len(gates') : gates'[i].gate_map = NoCell
    /\ Mapping =>
           \A i \in 1..Len(gates) :
               Cardinality({j \in 1..Len(gates') :
                   /\ Core(gates'[j]) = Core(gates[i])
                   /\ gates'[j].asap_level = gates[i].asap_level
                   /\ gates'[j].alap_level = gates[i].alap_level
                   /\ gates'[j].list_level = gates[i].list_level
                   /\ gates'[j].mobility = gates[i].mobility})
               = Cardinality({j \in 1..Len(gates) :
                   /\ Core(gates[j]) = Core(gates[i])
                   /\ gates[j].asap_level = gates[i].asap_level
                   /\ gates[j].alap_level = gates[i].alap_level
                   /\ gates[j].list_level = gates[i].list_level
                   /\ gates[j].mobility = gates[i].mobility})
    /\ (Scheduling \/ Mapping) =>
           /\ num_gates' = Len(gates')
           /\ Len(gates') = Len(gates)
           /\ \A i \in 1..Len(gates) :
                  CountOf(gates', Core(gates[i])) = CountOf(gates, Core(gates[i]))

C27_DecorateAndPermute == [][C27_Step]_vars

\* the three passes and both mappers have run on a table of two gates or
\* more that is not in the order of its out wires, and every gate is placed
C27_Witness ==
    /\ pc = "done"
    /\ Len(gates) >= 2
    /\ \E i \in 1..Len(gates) : \E j \in (i + 1)..Len(gates) :
           /\ gates[i].out > gates[j].out
           /\ gates[i].out < MAX_GATES
           /\ gates[j].out > 0
    /\ \A i \in 1..Len(gates) : gates[i].gate_map # NoCell

\* --------------------------------------------------------------------- C28
\* C28: when compute_list_schedule has returned on an acyclic table whose ASAP
\* schedule is complete, every gate with an assigned list_level has it equal
\* to its asap_level.
C28_ListEqualsAsap ==
    (ListReturned /\ Acyclic(gates) /\ \A i \in 1..Len(gates) : gates[i].asap_level # -1)
        => \A i \in 1..Len(gates) :
               gates[i].list_level # -1 => gates[i].list_level = gates[i].asap_level

\* compute_list_schedule has returned on an acyclic table of three ASAP levels
\* with every gate assigned, after a candidate capacity that was not feasible
C28_Witness ==
    /\ pc = "naive"
    /\ Acyclic(gates)
    /\ cand > LIST_FIRST_CANDIDATE
    /\ max_asap >= 3
    /\ \A i \in 1..Len(gates) : gates[i].asap_level # -1 /\ gates[i].list_level # -1

\* --------------------------------------------------------------------- C29
\* every operand of gate i is a wire of the primary-input namespace
ReadsInputsOnly(i) == \A k \in 1..gates[i].fanin : gates[i].inputs[k] >= MAX_GATES

\* every operand of gate i is a primary input or the out wire of a gate
ReadsDriven(i) ==
    \A k \in 1..gates[i].fanin :
        gates[i].inputs[k] >= MAX_GATES \/ ~is_pi(gates, gates[i].inputs[k])

\* C29: the ASAP and list passes give level 0 to the wires at or above
\* MAX_GATES and to no other wire: a levelled gate reads primary inputs and
\* gate outputs only, and it is on level 1 exactly when all its operands are
\* at or above MAX_GATES; a wire nN that no gate produces levels nothing.
C29_PrimaryInputLevel ==
    /\ AsapReturned =>
           \A i \in 1..Len(gates) :
               gates[i].asap_level # -1 =>
                   /\ ReadsDriven(i)
                   /\ (gates[i].asap_level = 1) <=> ReadsInputsOnly(i)
    /\ ListReturned =>
           \A i \in 1..Len(gates) :
               gates[i].list_level # -1 =>
                   /\ ReadsDriven(i)
                   /\ (gates[i].list_level = 1) <=> ReadsInputsOnly(i)

\* --------------------------------------------------------------------- C30
\* C30: in a table read from a netlist, parse_netlist gives no gate an out
\* wire or an operand wire equal to a reserved value: -1 (absent) or 0 (unused
\* slot).
C30_NoSentinelWire ==
    netlist # <<>> =>
        \A i \in 1..Len(gates) :
            /\ gates[i].out \notin {-1, 0}
            /\ \A k \in 1..gates[i].fanin : gates[i].inputs[k] \notin {-1, 0}

====
